---------------------------- MODULE Spec2Model ----------------------------
(***************************************************************************)
(* Model of scripts/import-game-files.py: extract_zip (the archive         *)
(* extractor) and main (the import orchestrator).                          *)
(*                                                                         *)
(* A stored entry path is a sequence of atoms.  An atom is either one      *)
(* separator character ("/" or "\\") or a maximal run of characters that   *)
(* holds no separator ("a", "b.txt", "..").  str.replace and str.split act *)
(* on the separator characters only, so they are computed atom by atom.    *)
(* A filesystem path is a sequence of components from PROJECT_ROOT (the    *)
(* empty sequence); a component is a sequence of atoms, so a component     *)
(* that kept a literal backslash is <<"c", "\\", "d.txt">>.                *)
(***************************************************************************)
EXTENDS Integers, Sequences, FiniteSets, TLC

VARIABLES
    fs,         \* the file tree: path -> node
    fs0,        \* the file tree before the run
    archive,    \* archive file name -> what is stored under that name
    infolist,   \* z.infolist() of the archive extract_zip has open
    dest,       \* extract_zip's dest argument
    i,          \* number of entries the for loop has finished
    xstate,     \* extract_zip: "idle", "open", "returned" or "raised"
    ret,        \* extract_zip's return value: <<>> (none) or <<n>>
    err,        \* the exception extract_zip raised, "" when none
    pc,         \* the caller's position
    env,        \* main: what sys.argv and the source directory hold
    attempts,   \* the extract_zip calls made so far, in order, with their outcome
    tree1,      \* the file tree when the first extract_zip call ended
    indexer,    \* the return codes of the subprocess.run calls made
    out,        \* what main has printed, one tag per message
    exitcode    \* the process exit status: <<>> (running) or <<n>>

vars == <<fs, fs0, archive, infolist, dest, i, xstate, ret, err, pc, env,
          attempts, tree1, indexer, out, exitcode>>

(***************************** bounds **************************************)
MaxEntries == 2
MaxData == 2
MaxMainEntries == 2

(*************************** program constants *****************************)
PROJECT_ROOT == << >>
PUBLIC_DIR == PROJECT_ROOT \o << <<"public">> >>
SIEDLER_DIR == PUBLIC_DIR \o << <<"Siedler4">> >>
MAIN_ZIP == "settlers4-assets.zip"
HD_ZIP == "settlers4-hd-assets.zip"
GH6 == SIEDLER_DIR \o << <<"Gfx">>, <<"2.gh6">> >>

(***************************** path strings *******************************)
\* filename.replace("\\", "/")
ReplaceKeepBackslash(filename) == filename
Replace(filename) ==
    [k \in DOMAIN filename |-> IF filename[k] = "\\" THEN "/" ELSE filename[k]]

\* str.split(sep): the runs between separators, empty runs included
RECURSIVE SplitFrom(_, _, _, _)
SplitFrom(s, sep, k, cur) ==
    IF k > Len(s) THEN << cur >>
    ELSE IF s[k] = sep THEN << cur >> \o SplitFrom(s, sep, k + 1, << >>)
    ELSE SplitFrom(s, sep, k + 1, Append(cur, s[k]))

Split(s, sep) == SplitFrom(s, sep, 1, << >>)

\* ZipFile._extract_member: "remove redundant separators, '.' and '..' components"
InvalidPathParts == { << >>, <<".">>, <<"..">> }
IsValidPart(x) == x \notin InvalidPathParts
ArcnameKeepDotDot(filename) ==
    SelectSeq(Split(filename, "/"), LAMBDA x : x \notin { << >>, <<".">> })
Arcname(filename) == SelectSeq(Split(filename, "/"), IsValidPart)

\* os.path.normpath on a sequence of components
RECURSIVE NormPath(_)
NormPath(p) ==
    IF p = << >> THEN << >>
    ELSE LET head == NormPath(SubSeq(p, 1, Len(p) - 1))
             last == p[Len(p)]
         IN  IF last \in { << >>, <<".">> } THEN head
             ELSE IF last = <<"..">>
                  THEN IF head = << >> THEN << >>
                       ELSE SubSeq(head, 1, Len(head) - 1)
             ELSE Append(head, last)

\* os.path.normpath(os.path.join(targetpath, arcname))
TargetPath(d, filename) == NormPath(d \o Arcname(filename))

\* os.path.dirname
Dirname(p) == IF p = << >> THEN << >> ELSE SubSeq(p, 1, Len(p) - 1)

\* ZipInfo.is_dir
IsDirEntry(filename) == Len(filename) > 0 /\ filename[Len(filename)] = "/"

(****************************** file tree *********************************)
DirNode == [isdir |-> TRUE, data |-> 0, torn |-> FALSE]
FileNode(d, t) == [isdir |-> FALSE, data |-> d, torn |-> t]

Exists(tree, p) == p \in DOMAIN tree
IsDir(tree, p) == p \in DOMAIN tree /\ tree[p].isdir
IsFile(tree, p) == p \in DOMAIN tree /\ ~tree[p].isdir

Prefixes(p) == { SubSeq(p, 1, n) : n \in 0..Len(p) }

Put(tree, p, node) ==
    [q \in DOMAIN tree \cup {p} |-> IF q = p THEN node ELSE tree[q]]

\* os.makedirs(p): every missing directory down to p, or an error when the
\* deepest existing ancestor is a file (nothing is created then)
Makedirs(tree, p) ==
    IF \E q \in Prefixes(p) : IsFile(tree, q)
    THEN [fs |-> tree, err |-> "NotADirectoryError"]
    ELSE [fs |-> [q \in DOMAIN tree \cup Prefixes(p) |->
                     IF q \in DOMAIN tree THEN tree[q] ELSE DirNode],
          err |-> ""]

\* os.mkdir(p)
Mkdir(tree, p) ==
    IF Exists(tree, p) THEN [fs |-> tree, err |-> "FileExistsError"]
    ELSE IF ~IsDir(tree, Dirname(p)) THEN [fs |-> tree, err |-> "NotADirectoryError"]
    ELSE [fs |-> Put(tree, p, DirNode), err |-> ""]

\* the directory branch of _extract_member
MakeDirEntry(tree, p) ==
    IF IsDir(tree, p) THEN [fs |-> tree, err |-> ""] ELSE Mkdir(tree, p)

\* open(targetpath, "wb") and shutil.copyfileobj(source, target): the file is
\* truncated when it is opened; a payload that fails its CRC-32 check raises
\* BadZipFile after that, leaving the truncated file (a torn node)
WriteFileKeepExisting(tree, p, info) ==
    IF IsDir(tree, p) THEN [fs |-> tree, err |-> "IsADirectoryError"]
    ELSE IF ~IsDir(tree, Dirname(p)) THEN [fs |-> tree, err |-> "NotADirectoryError"]
    ELSE IF IsFile(tree, p) THEN [fs |-> tree, err |-> ""]
    ELSE IF info.corrupt
         THEN [fs |-> Put(tree, p, FileNode(0, TRUE)), err |-> "BadZipFile"]
    ELSE [fs |-> Put(tree, p, FileNode(info.data, FALSE)), err |-> ""]
WriteFile(tree, p, info) ==
    IF IsDir(tree, p) THEN [fs |-> tree, err |-> "IsADirectoryError"]
    ELSE IF ~IsDir(tree, Dirname(p)) THEN [fs |-> tree, err |-> "NotADirectoryError"]
    ELSE IF info.corrupt
         THEN [fs |-> Put(tree, p, FileNode(0, TRUE)), err |-> "BadZipFile"]
    ELSE [fs |-> Put(tree, p, FileNode(info.data, FALSE)), err |-> ""]

\* z.extract(info, dest)
ExtractMember(tree, info, d) ==
    LET targetpath == TargetPath(d, info.filename)
        upperdirs == Dirname(targetpath)
        made == IF ~Exists(tree, upperdirs) THEN Makedirs(tree, upperdirs)
                ELSE [fs |-> tree, err |-> ""]
    IN  IF made.err # "" THEN made
        ELSE IF IsDirEntry(info.filename) THEN MakeDirEntry(made.fs, targetpath)
        ELSE WriteFile(made.fs, targetpath, info)

(***************************** the inputs *********************************)
\* stored entry paths, as the archive's producer recorded them
FileNames ==
    { <<"a", "/", "b.txt">>, <<"a", "\\", "b.txt">>, <<"c", "\\", "d.txt">>,
      <<"..", "\\", "e">>, <<"a">> }
DirNames == { <<"a", "\\">> }
MainFileNames == { <<"Siedler4", "\\", "Gfx", "\\", "2.gh6">>, <<"a">> }
HdFileNames == { <<"Gfx", "\\", "2.gh6">>, <<"a">> }

ZipInfo(name, d, c) ==
    [orig_filename |-> name, filename |-> name, data |-> d, corrupt |-> c]

\* intact file entries with every payload, one corrupt file entry per name
\* (its payload never reaches the disk), and directory entries
EntryPool ==
    { ZipInfo(n, d, FALSE) : n \in FileNames, d \in 1..MaxData }
    \cup { ZipInfo(n, 1, TRUE) : n \in FileNames }
    \cup { ZipInfo(n, 0, FALSE) : n \in DirNames }

PoolOf(names) == { ZipInfo(n, 1, c) : n \in names, c \in BOOLEAN }

SeqsUpTo(S, n) == UNION { [1..k -> S] : k \in 0..n }

Archives == SeqsUpTo(EntryPool, MaxEntries)

\* what a name of the source directory holds: nothing, a file that is no
\* zip archive, or an archive
Absent == [present |-> FALSE, valid |-> FALSE, entries |-> << >>]
NotAZip == [present |-> TRUE, valid |-> FALSE, entries |-> << >>]
Zip(entries) == [present |-> TRUE, valid |-> TRUE, entries |-> entries]
ZipFiles(names) ==
    { Absent, NotAZip } \cup { Zip(a) : a \in SeqsUpTo(PoolOf(names), MaxMainEntries) }

RootTree == [p \in { PROJECT_ROOT } |-> DirNode]
InitialTrees ==
    { RootTree, Makedirs(RootTree, PUBLIC_DIR).fs, Makedirs(RootTree, SIEDLER_DIR).fs }

T_ZIP == "t.zip"
NoEnv == [argc |-> 1, isdir |-> FALSE]

IndexerResults ==
    { [spawned |-> TRUE, returncode |-> 0], [spawned |-> TRUE, returncode |-> 1],
      [spawned |-> FALSE, returncode |-> 1] }

(****************************** extract_zip *******************************)
Attempt(zip_path, d, result) == [zip |-> zip_path, dest |-> d, result |-> result]
SetResult(att, result) == [att EXCEPT ![Len(att)].result = result]

\* with zipfile.ZipFile(zip_path, "r") as z: BadZipFile when the file is no
\* zip archive
OpenZip(zip_path, d) ==
    /\ infolist' = archive[zip_path].entries
    /\ dest' = d
    /\ i' = 0
    /\ ret' = << >>
    /\ IF archive[zip_path].valid
       THEN /\ xstate' = "open"
            /\ err' = ""
            /\ attempts' = Append(attempts, Attempt(zip_path, d, "running"))
       ELSE /\ xstate' = "raised"
            /\ err' = "BadZipFile"
            /\ attempts' = Append(attempts, Attempt(zip_path, d, "raised"))

\* one iteration of "for info in z.infolist()"; an exception leaves the loop
\* and the function
LoopBodyRollback(info) ==
    LET r == ExtractMember(fs, info, dest)
    IN  IF r.err = ""
        THEN /\ fs' = r.fs
             /\ i' = i + 1
             /\ UNCHANGED <<xstate, err, attempts>>
        ELSE /\ fs' = fs0
             /\ xstate' = "raised"
             /\ err' = r.err
             /\ attempts' = SetResult(attempts, "raised")
             /\ UNCHANGED i
LoopBody(info) ==
    LET r == ExtractMember(fs, info, dest)
    IN  /\ fs' = r.fs
        /\ IF r.err = ""
           THEN /\ i' = i + 1
                /\ UNCHANGED <<xstate, err, attempts>>
           ELSE /\ xstate' = "raised"
                /\ err' = r.err
                /\ attempts' = SetResult(attempts, "raised")
                /\ UNCHANGED i

\* the entry the for loop takes when `done` of the n entries are finished:
\* z.infolist() is in the archive's stored order
NextEntryReversed(n, done) == n - done
NextEntry(n, done) == done + 1

ExtractEntry ==
    /\ xstate = "open"
    /\ i < Len(infolist)
    /\ LET k == NextEntry(Len(infolist), i)
           info == [infolist[k] EXCEPT !.filename = Replace(@)]
       IN  /\ infolist' = [infolist EXCEPT ![k] = info]
           /\ LoopBody(info)
    /\ UNCHANGED <<fs0, archive, dest, ret, pc, env, tree1, indexer, out,
                   exitcode>>

\* return len(z.infolist())
ReturnFilesOnly(entries) ==
    Len(SelectSeq(entries, LAMBDA e : ~IsDirEntry(e.filename)))
ReturnValue(entries) == Len(entries)

ReturnCount ==
    /\ xstate = "open"
    /\ i = Len(infolist)
    /\ xstate' = "returned"
    /\ ret' = << ReturnValue(infolist) >>
    /\ attempts' = SetResult(attempts, "returned")
    /\ UNCHANGED <<fs, fs0, archive, infolist, dest, i, err, pc, env, tree1,
                   indexer, out, exitcode>>

(*********** a caller that extracts one archive twice (spec P4) ************)
InitExtract ==
    /\ fs0 \in InitialTrees
    /\ fs = fs0
    /\ \E a \in Archives : archive = [n \in { T_ZIP } |-> Zip(a)]
    /\ dest \in { PUBLIC_DIR, SIEDLER_DIR }
    /\ infolist = << >>
    /\ i = 0
    /\ xstate = "idle"
    /\ ret = << >>
    /\ err = ""
    /\ pc = "first"
    /\ env = NoEnv
    /\ attempts = << >>
    /\ tree1 = fs0
    /\ indexer = << >>
    /\ out = << >>
    /\ exitcode = << >>

CallExtract ==
    /\ pc \in { "first", "second" }
    /\ xstate = "idle"
    /\ OpenZip(T_ZIP, dest)
    /\ UNCHANGED <<fs, fs0, archive, pc, env, tree1, indexer, out, exitcode>>

EndOfCall ==
    /\ pc \in { "first", "second" }
    /\ xstate \in { "returned", "raised" }
    /\ IF pc = "first"
       THEN /\ pc' = "second"
            /\ tree1' = fs
            /\ xstate' = "idle"
       ELSE /\ pc' = "end"
            /\ UNCHANGED <<tree1, xstate>>
    /\ UNCHANGED <<fs, fs0, archive, infolist, dest, i, ret, err, env, attempts,
                   indexer, out, exitcode>>

NextExtract == CallExtract \/ ExtractEntry \/ ReturnCount \/ EndOfCall

SpecExtract == InitExtract /\ [][NextExtract]_vars

(********************************* main ***********************************)
\* the states main can start in: with or without a directory argument, which
\* may or may not name a directory, which may or may not hold the archives
InitMain ==
    /\ fs0 \in InitialTrees
    /\ fs = fs0
    /\ env \in [argc : { 1, 2 }, isdir : BOOLEAN]
    /\ \E m \in ZipFiles(MainFileNames), h \in ZipFiles(HdFileNames) :
          archive = [n \in { MAIN_ZIP, HD_ZIP } |->
                        IF env.argc < 2 \/ ~env.isdir THEN Absent
                        ELSE IF n = MAIN_ZIP THEN m ELSE h]
    /\ infolist = << >>
    /\ dest = PUBLIC_DIR
    /\ i = 0
    /\ xstate = "idle"
    /\ ret = << >>
    /\ err = ""
    /\ pc = "args"
    /\ attempts = << >>
    /\ tree1 = fs0
    /\ indexer = << >>
    /\ out = << >>
    /\ exitcode = << >>

Exit(code) ==
    /\ pc' = "exit"
    /\ exitcode' = << code >>

\* if len(sys.argv) < 2: usage; sys.exit(1)
CheckArgs ==
    /\ pc = "args"
    /\ IF env.argc < 2
       THEN /\ out' = Append(out, "usage")
            /\ Exit(1)
       ELSE /\ pc' = "dir"
            /\ UNCHANGED <<out, exitcode>>
    /\ UNCHANGED <<fs, fs0, archive, infolist, dest, i, xstate, ret, err, env,
                   attempts, tree1, indexer>>

\* if not os.path.isdir(src_dir): sys.exit(1)
CheckDir ==
    /\ pc = "dir"
    /\ IF ~env.isdir
       THEN /\ out' = Append(out, "not a directory")
            /\ Exit(1)
       ELSE /\ pc' = "main_zip"
            /\ UNCHANGED <<out, exitcode>>
    /\ UNCHANGED <<fs, fs0, archive, infolist, dest, i, xstate, ret, err, env,
                   attempts, tree1, indexer>>

\* if not os.path.isfile(main_zip): sys.exit(1); else extract_zip(main_zip, PUBLIC_DIR)
MainZipNeverMissing == FALSE
MainZipMissing == ~archive[MAIN_ZIP].present

CheckMainZip ==
    /\ pc = "main_zip"
    /\ IF MainZipMissing
       THEN /\ out' = Append(out, "not found")
            /\ Exit(1)
            /\ UNCHANGED <<infolist, dest, i, xstate, ret, err, attempts>>
       ELSE /\ out' = Append(out, "extracting main")
            /\ pc' = "in_main"
            /\ OpenZip(MAIN_ZIP, PUBLIC_DIR)
            /\ UNCHANGED exitcode
    /\ UNCHANGED <<fs, fs0, archive, env, tree1, indexer>>

\* an exception nobody catches ends the interpreter with status 1
AfterRaiseGoOn(at) ==
    /\ pc' = IF at = "in_main" THEN "hd" ELSE "verify"
    /\ xstate' = "idle"
    /\ UNCHANGED <<out, exitcode>>
AfterRaise(at) == Exit(1) /\ UNCHANGED <<xstate, out>>

Uncaught ==
    /\ pc \in { "in_main", "in_hd" }
    /\ xstate = "raised"
    /\ AfterRaise(pc)
    /\ UNCHANGED <<fs, fs0, archive, infolist, dest, i, ret, err, env, attempts,
                   tree1, indexer>>

\* count = extract_zip(...); print(f"  {count} entries extracted")
Extracted ==
    /\ pc \in { "in_main", "in_hd" }
    /\ xstate = "returned"
    /\ out' = Append(out, "count")
    /\ pc' = IF pc = "in_main" THEN "hd" ELSE "verify"
    /\ xstate' = "idle"
    /\ UNCHANGED <<fs, fs0, archive, infolist, dest, i, ret, err, env, attempts,
                   tree1, indexer, exitcode>>

\* if os.path.isfile(hd_zip): extract_zip(hd_zip, SIEDLER_DIR)
CheckHdZip ==
    /\ pc = "hd"
    /\ IF archive[HD_ZIP].present
       THEN /\ out' = Append(out, "extracting hd")
            /\ pc' = "in_hd"
            /\ OpenZip(HD_ZIP, SIEDLER_DIR)
       ELSE /\ pc' = "verify"
            /\ UNCHANGED <<out, infolist, dest, i, xstate, ret, err, attempts>>
    /\ UNCHANGED <<fs, fs0, archive, env, tree1, indexer, exitcode>>

\* if os.path.isfile(gh6): [OK] else: [!!]; either way main goes on
AfterVerifyStopIfMissing(found) ==
    IF found THEN pc' = "index" /\ UNCHANGED exitcode ELSE Exit(1)
AfterVerify(found) == pc' = "index" /\ UNCHANGED exitcode

Verify ==
    /\ pc = "verify"
    /\ out' = Append(out, IF IsFile(fs, GH6) THEN "gh6 found" ELSE "gh6 missing")
    /\ AfterVerify(IsFile(fs, GH6))
    /\ UNCHANGED <<fs, fs0, archive, infolist, dest, i, xstate, ret, err, env,
                   attempts, tree1, indexer>>

\* result = subprocess.run(["node", gen_script]); sys.exit(1) unless it
\* returned 0.  subprocess.run raises when node cannot be started.
ExitStatusIgnoringIndexer(result) == 0
ExitStatusAfter(result) ==
    IF result.spawned /\ result.returncode = 0 THEN 0 ELSE 1

RunIndexer ==
    /\ pc = "index"
    /\ \E result \in IndexerResults :
          /\ indexer' = Append(indexer, result)
          /\ out' = Append(out, IF ~result.spawned THEN "traceback"
                                ELSE IF result.returncode = 0 THEN "done"
                                ELSE "failed")
          /\ Exit(ExitStatusAfter(result))
    /\ UNCHANGED <<fs, fs0, archive, infolist, dest, i, xstate, ret, err, env,
                   attempts, tree1>>

NextMain ==
    \/ CheckArgs \/ CheckDir \/ CheckMainZip \/ ExtractEntry \/ ReturnCount
    \/ Uncaught \/ Extracted \/ CheckHdZip \/ Verify \/ RunIndexer

SpecMain == InitMain /\ [][NextMain]_vars

(******************************* claims ***********************************)
\* the archive of the extract_zip call in progress (or last made)
Stored == archive[attempts[Len(attempts)].zip].entries

\* a stored path with every backslash replaced by a forward slash
Slashed(name) == [k \in DOMAIN name |-> IF name[k] = "\\" THEN "/" ELSE name[k]]
Segments(name) == Split(Slashed(name), "/")
KeptSegments(name) == SelectSeq(Segments(name), LAMBDA x : x \notin { << >>, <<".">>, <<"..">> })
NestedPath(d, name) == d \o KeptSegments(name)
EndsInSeparator(name) == Len(name) > 0 /\ name[Len(name)] \in { "/", "\\" }

HasBackslash(p) == \E k \in DOMAIN p : \E j \in DOMAIN p[k] : p[k][j] = "\\"

\* C1: every entry extract_zip has processed is materialized, whatever the
\* other entries are, at the path its stored path gives once every backslash
\* is a forward slash (a directory for a directory entry, a file otherwise),
\* no path of the tree has a literal backslash, and a call that completes on
\* an archive mixing a/b.txt and c\d.txt leaves the nested files a/b.txt and
\* c/d.txt
C1_SeparatorsNormalized ==
    /\ \A p \in DOMAIN fs : ~HasBackslash(p)
    /\ xstate \in { "open", "returned", "raised" } =>
          \A k \in 1..i :
             LET p == NestedPath(dest, Stored[k].orig_filename)
             IN  /\ p \in DOMAIN fs
                 /\ fs[p].isdir = EndsInSeparator(Stored[k].orig_filename)
    /\ \A d1, d2 \in 1..MaxData :
          (/\ xstate = "returned"
           /\ Stored = << ZipInfo(<<"a", "/", "b.txt">>, d1, FALSE),
                          ZipInfo(<<"c", "\\", "d.txt">>, d2, FALSE) >>)
          => /\ IsDir(fs, dest \o << <<"a">> >>)
             /\ IsDir(fs, dest \o << <<"c">> >>)
             /\ fs[dest \o << <<"a">>, <<"b.txt">> >>] = FileNode(d1, FALSE)
             /\ fs[dest \o << <<"c">>, <<"d.txt">> >>] = FileNode(d2, FALSE)

C1_Witness ==
    /\ xstate = "returned"
    /\ Len(Stored) = 2
    /\ Stored[1].orig_filename = <<"a", "/", "b.txt">>
    /\ Stored[2].orig_filename = <<"c", "\\", "d.txt">>
    /\ IsFile(fs, dest \o << <<"a">>, <<"b.txt">> >>)
    /\ IsFile(fs, dest \o << <<"c">>, <<"d.txt">> >>)

\* the normalized path of an entry resolves outside the destination root
Escapes(d, name) == d \notin Prefixes(NormPath(d \o Segments(name)))

\* C2, as claimed: an entry whose normalized path resolves outside the
\* destination root is never extracted (the call fails at it with
\* PathTraversalError), and no file is written outside the destination root
C2_TraversalRejected ==
    xstate \in { "open", "returned", "raised" } =>
       /\ \A k \in 1..i : ~Escapes(dest, Stored[k].orig_filename)
       /\ (xstate = "raised" /\ i < Len(Stored)
              /\ Escapes(dest, Stored[i + 1].orig_filename))
          => err = "PathTraversalError"
       /\ \A p \in DOMAIN fs : IsFile(fs, p) => dest \in Prefixes(p)

\* C2, amended: extract_zip rejects no entry for the '..' segments of its
\* normalized path; it drops them and materializes the entry at the remaining
\* path, and in no reachable state is a file outside the destination root:
\* every file is at the root's path or below it, and every directory created
\* is below the root or one of its ancestors
C2_TraversalContained ==
    /\ \A p \in DOMAIN fs : IsFile(fs, p) => dest \in Prefixes(p)
    /\ \A p \in DOMAIN fs \ DOMAIN fs0 : dest \in Prefixes(p) \/ p \in Prefixes(dest)
    /\ xstate \in { "open", "returned", "raised" } =>
          \A k \in 1..i :
             Escapes(dest, Stored[k].orig_filename)
             => NestedPath(dest, Stored[k].orig_filename) \in DOMAIN fs
    /\ err # "PathTraversalError"

C2_Witness ==
    /\ xstate = "returned"
    /\ \E k \in 1..Len(Stored) :
          /\ Stored[k].orig_filename = <<"..", "\\", "e">>
          /\ Escapes(dest, Stored[k].orig_filename)
    /\ IsFile(fs, dest \o << <<"e">> >>)

\* C3: a call that completes on an archive of N entries returns N, directory
\* entries counted; a call on an archive of no entry returns 0 and does not
\* raise
C3_CountIsEntryCount ==
    /\ xstate = "returned" => ret = << Len(Stored) >>
    /\ (xstate \in { "open", "returned", "raised" } /\ Stored = << >>)
       => xstate # "raised" /\ ret \in { << >>, << 0 >> }

C3_Witness ==
    /\ xstate = "returned"
    /\ ret = << 2 >>
    /\ \E k \in 1..2 : EndsInSeparator(Stored[k].orig_filename)
    /\ Cardinality({ p \in DOMAIN fs : IsFile(fs, p) }) = 1

\* C4: when extract_zip has run twice on the same archive into the same
\* destination root, the file tree (paths and contents) is the one the first
\* run left, and the second run ended as the first did
C4_Idempotent ==
    pc = "end" =>
       /\ fs = tree1
       /\ attempts[2].result = attempts[1].result

C4_Witness ==
    /\ pc = "end"
    /\ attempts[1].result = "returned"
    /\ attempts[2].result = "returned"
    /\ Len(Stored) = 2
    /\ \E p \in DOMAIN fs : IsFile(fs, p)
    /\ \E p \in DOMAIN fs \ DOMAIN fs0 : IsDir(fs, p)

\* the last entry of the archive with the normalized path of entry k
LastWithPath(k) ==
    CHOOSE j \in k..Len(Stored) :
       /\ Slashed(Stored[j].orig_filename) = Slashed(Stored[k].orig_filename)
       /\ \A m \in (j + 1)..Len(Stored) :
             Slashed(Stored[m].orig_filename) # Slashed(Stored[k].orig_filename)

\* C5: after a call that completes, the file of every file entry holds the
\* payload of the last entry of the archive with the same normalized path
C5_LastEntryWins ==
    xstate = "returned" =>
       \A k \in 1..Len(Stored) :
          ~EndsInSeparator(Stored[k].orig_filename)
          => fs[NestedPath(dest, Stored[k].orig_filename)]
                = FileNode(Stored[LastWithPath(k)].data, FALSE)

C5_Witness ==
    /\ xstate = "returned"
    /\ Len(Stored) = 2
    /\ Stored[1].orig_filename = <<"a", "\\", "b.txt">>
    /\ Stored[2].orig_filename = <<"a", "/", "b.txt">>
    /\ Stored[1].data # Stored[2].data
    /\ fs[dest \o << <<"a">>, <<"b.txt">> >>] = FileNode(Stored[2].data, FALSE)

\* the step in which extract_zip fails at the entry after the i finished ones
FailsAtEntry == xstate = "open" /\ xstate' = "raised" /\ i < Len(Stored)

\* C10, as claimed: when extract_zip fails at the k-th entry, what entries
\* 1..k-1 materialized is on disk exactly as written, no later entry is
\* processed and no count is returned
C10_EarlierEntriesUntouched ==
    [][/\ FailsAtEntry =>
             /\ \A j \in 1..i :
                   LET p == NestedPath(dest, Stored[j].orig_filename)
                   IN  p \in DOMAIN fs' /\ fs'[p] = fs[p]
             /\ i' = i /\ ret' = << >>
       /\ (xstate = "raised" /\ xstate' = "raised") => i' = i /\ fs' = fs /\ ret' = ret
      ]_vars

\* C10, amended: when extract_zip fails at the k-th entry, nothing is rolled
\* back or deleted: every path on disk stays, with its content, except the
\* k-th entry's own target path, whose file (an earlier entry's, when the
\* paths coincide) the failed write may have truncated; no later entry is
\* processed and no count is returned
C10_NoRollback ==
    [][/\ FailsAtEntry =>
             LET target == NestedPath(dest, Stored[i + 1].orig_filename)
             IN  /\ DOMAIN fs \subseteq DOMAIN fs'
                 /\ \A p \in DOMAIN fs : p # target => fs'[p] = fs[p]
                 /\ \A p \in DOMAIN fs :
                       p = target => fs'[p] = fs[p] \/ fs'[p] = FileNode(0, TRUE)
                 /\ i' = i /\ ret' = << >>
       /\ (xstate = "raised" /\ xstate' = "raised") => i' = i /\ fs' = fs /\ ret' = ret
      ]_vars

C10_Witness ==
    /\ xstate = "raised"
    /\ i = 1
    /\ Len(Stored) = 2
    /\ IsFile(fs, NestedPath(dest, Stored[1].orig_filename))
    /\ fs[NestedPath(dest, Stored[1].orig_filename)] = FileNode(Stored[1].data, FALSE)

(***************************** claims on main *****************************)
Returned(k) == attempts[k].result = "returned"
IndexerSucceeded ==
    Len(indexer) = 1 /\ indexer[1].spawned /\ indexer[1].returncode = 0

\* C6: a run without a directory argument, with a path that is no directory
\* or without the primary archive never gets past the three checks; it
\* attempts no extraction, leaves the file tree as it was, does not invoke
\* the indexer, and exits with a non-zero status
C6_EarlyExit ==
    (env.argc < 2 \/ ~env.isdir \/ ~archive[MAIN_ZIP].present) =>
       /\ pc \in { "args", "dir", "main_zip", "exit" }
       /\ attempts = << >>
       /\ fs = fs0
       /\ indexer = << >>
       /\ pc = "exit" => exitcode # << >> /\ exitcode # << 0 >>

C6_Witness ==
    /\ pc = "exit"
    /\ env.argc = 2 /\ env.isdir
    /\ ~archive[MAIN_ZIP].present
    /\ archive[HD_ZIP].present /\ archive[HD_ZIP].valid
    /\ exitcode = << 1 >>
    /\ out = << "not found" >>

\* C7: once the extraction of the primary archive has failed, the run only
\* exits, with a non-zero status: no second extraction is attempted, though
\* the secondary archive be present, and the indexer is not invoked
C7_AbortOnPrimaryFailure ==
    (Len(attempts) >= 1 /\ attempts[1].result = "raised") =>
       /\ attempts[1].zip = MAIN_ZIP
       /\ Len(attempts) = 1
       /\ indexer = << >>
       /\ pc \in { "in_main", "exit" }
       /\ pc = "exit" => exitcode # << >> /\ exitcode # << 0 >>

C7_Witness ==
    /\ pc = "exit"
    /\ attempts = << Attempt(MAIN_ZIP, PUBLIC_DIR, "raised") >>
    /\ i = 1
    /\ archive[HD_ZIP].present /\ archive[HD_ZIP].valid
    /\ exitcode = << 1 >>

\* C8: the indexer is invoked at most once, and only after every extraction
\* of the run has returned (the primary's, and the secondary's when that
\* archive is present); a run with the primary archive present in which every
\* attempted extraction succeeded has invoked it exactly once when it exits,
\* with or without the secondary archive and with or without Gfx/2.gh6
C8_IndexerOnce ==
    /\ Len(indexer) <= 1
    /\ Len(indexer) = 1 =>
          /\ Len(attempts) = IF archive[HD_ZIP].present THEN 2 ELSE 1
          /\ \A k \in 1..Len(attempts) : Returned(k)
          /\ xstate = "idle"
    /\ (/\ pc = "exit"
        /\ env.argc >= 2 /\ env.isdir /\ archive[MAIN_ZIP].present
        /\ \A k \in 1..Len(attempts) : Returned(k))
       => Len(indexer) = 1

C8_Witness ==
    /\ pc = "exit"
    /\ Len(indexer) = 1
    /\ attempts = << Attempt(MAIN_ZIP, PUBLIC_DIR, "returned") >>
    /\ ~archive[HD_ZIP].present
    /\ ~IsFile(fs, GH6)
    /\ "gh6 missing" \in { out[k] : k \in DOMAIN out }

\* C9: the run ends with status zero exactly when the indexer was invoked and
\* reported success; it ends non-zero when the indexer reports a non-zero
\* result and when it ends before the indexer is reached
C9_ExitStatus ==
    pc = "exit" =>
       /\ exitcode # << >>
       /\ exitcode = << 0 >> <=> IndexerSucceeded
       /\ indexer = << >> => exitcode # << 0 >>

C9_Witness ==
    /\ pc = "exit"
    /\ Len(indexer) = 1
    /\ indexer[1].spawned /\ indexer[1].returncode # 0
    /\ exitcode = << 1 >>

=============================================================================
